---- MODULE Spec2Model ----
(***************************************************************************)
(* The Reflexion loop of 2.Predictions/3.Reflexion.ts: runReflexion calls  *)
(* reflexionStep ten times; each call prunes the least important feature,  *)
(* asks the proposer (addFeature) for a replacement, has it scored         *)
(* (rankVideos), retrains, validates and returns; runReflexion then        *)
(* accepts or rejects.  The language model, the scorer and the regression  *)
(* library are collaborators whose replies are chosen nondeterministically.*)
(*                                                                         *)
(* Spec is the run of runReflexion.  SpecCalls applies updateFeatures and  *)
(* getWorstPredictions (with the two lists updatePrompt makes of its       *)
(* result) to arguments drawn from bounded sets.  SpecRank is one call of  *)
(* rankVideos of 2.Predictions/2.Rank.ts against every reply of its client.*)
(***************************************************************************)
EXTENDS Integers, Sequences, FiniteSets, TLC

VARIABLES
    features,        \* runReflexion: let features (the active feature list)
    failedFeatures,  \* runReflexion: const failedFeatures (the rejection history)
    featuredVideos,  \* runReflexion: let featuredVideos
    index,           \* runReflexion: the for loop's index
    pc,              \* position of the run: start, proposing, scoringTraining,
                     \* scoringValidation, deciding, returned, threw
    step,            \* the locals of the reflexionStep call in flight
    attempted,       \* the indices reflexionStep was called with, in call order
    returned,        \* runReflexion: the value handed to the caller
    written,         \* runReflexion: the content of ${dir}/features.json
    call,            \* one call of updateFeatures or getWorstPredictions (and of
                     \* updatePrompt on its result): arguments and outcome
    rank             \* the locals of one call of rankVideos

vars == <<features, failedFeatures, featuredVideos, index, pc, step, attempted,
          returned, written, call, rank>>

----------------------------------------------------------------------------
(* Bounds of the model *)

\* The collaborators let an iteration run to its decision only while the
\* rejection history holds fewer than MaxFailed entries; after that every
\* proposer call fails (and the loop skips the remaining indices).
MaxFailed == 3

\* The names the proposer may reply with: the bootstrap names and a new name
\* that differs from one of them by case only.
ProposalNames == {"len", "caps", "Len"}

\* The titles of the entities of the run.
Titles == <<"v1", "v2">>

\* The scores a scorer reply may carry (the schema only asks for a number).
ScoreVals == {7}

\* The score every entity holds for every bootstrap feature.
BootstrapScore == 3

\* The coefficients the fitted model may give a feature column.
CoefVals == {-2, 0, 1}

\* The values a prediction (in log scale) may take on an entity.
PredVals == {1, 2}

\* A call of updateFeatures is given at most MaxFeatures features (the first
\* ones of CallNames) and a model fitted on at most MaxFeatures feature columns
\* and at most MaxAux auxiliary covariates.
MaxFeatures == 3

CallNames == <<"len", "caps", "hook", "digits">>

MaxAux == 6

\* Weights in units of 0.1: a feature coefficient, an auxiliary weight (the
\* same for every auxiliary column of a call), the intercept.
CallCoefVals == {-2, 0, 1, 2, 50}

AuxWeightVals == {3}

InterceptVals == {10}

\* A call of getWorstPredictions is given at most MaxVideos videos, with these
\* predictions and targets (log scale), or one of the two inputs below.
MaxVideos == 3

CallPredVals == {0, 1, 3}

ActualVals == {1, 2}

\* A call of a client is given the outcomes of at most MaxOutcomes attempts.
MaxOutcomes == 3

\* The longest list of videos getRecentVideos is applied to.
MaxHistory == 7

\* trainReflexion is given 1..MaxSplit training and 1..MaxSplit validation videos.
MaxSplit == 2

\* rankTargetProximity is given 0..MaxSources sources out of MaxBases papers.
MaxSources == 3

MaxBases == 3

\* A call of rankVideos is given 1..MaxRanked videos, or as many as its batch
\* size, or one more; the scorer is asked at most MaxRequests times.
MaxRanked == 2

MaxRequests == 14

----------------------------------------------------------------------------
(* Program constants and JavaScript values *)

\* const batchSize = ollamaModel ? 10 : features.length === 1 ? 40 : 20
OLLAMA_BATCH == 10

SINGLE_FEATURE_BATCH == 40

GEMMA_BATCH == 20

\* GemmaClient: const maxAttempts = 1
GEMMA_MAX_ATTEMPTS == 1

\* OllamaClient: const maxAttempts = 2
OLLAMA_MAX_ATTEMPTS == 2

\* const MAX_TRIES = 3
MAX_TRIES == 3

\* sortedDiffs.slice(0, 20)
WORST_COUNT == 20

\* for (let index = 0; index < 10; index++)
MaxIterations == 10

\* recentViews holds the log views of the RECENT_VIDEOS_COUNT preceding videos
RECENT_VIDEOS_COUNT == 5

\* The number NaN (0/0, or any arithmetic on NaN); every comparison with it is false.
NaN == -1

\* The value undefined, where a Feature is expected.
Undefined == [name |-> "undefined", id |-> -1]

\* A throw of the callee, in the place of its result.
Throw == "throw"

Range(s) == {s[i] : i \in 1..Len(s)}

Names(fs) == {fs[i].name : i \in {j \in 1..Len(fs) : fs[j] # Undefined}}

Abs(x) == IF x < 0 THEN -x ELSE x

Min(S) == CHOOSE x \in S : \A y \in S : x <= y

\* The orders [...videos].sort(() => Math.random() - 0.5) may leave n items in.
Shuffles(n) ==
    {p \in [1..n -> 1..n] : \A i, j \in 1..n : (i # j) => (p[i] # p[j])}

----------------------------------------------------------------------------
(* The state after bootstrap (featureVideos) *)

\* getFeatures: the initial features; the object identity of a Feature is its
\* id (0 for the bootstrap objects, fresh for every proposer reply).
BootstrapFeatures == << [name |-> "len", id |-> 0], [name |-> "caps", id |-> 0] >>

K == Len(BootstrapFeatures)

\* featureVideos: every training video with the scores of the bootstrap features
\* (logViews stands for Math.log(views + 1), on an integer grid).
BootstrapVideos ==
    [i \in 1..Len(Titles) |->
        [title       |-> Titles[i],
         logViews    |-> i,
         recentViews |-> [j \in 1..RECENT_VIDEOS_COUNT |-> 0],
         features |-> [n \in Names(BootstrapFeatures) |-> BootstrapScore]]]

NoResults == [totalLogError |-> 0, videoCount |-> 0]

NoStep ==
    [features           |-> <<>>,
     training           |-> <<>>,
     validation         |-> <<>>,
     bestFeatures       |-> <<>>,
     worstFeature       |-> Undefined,
     fullFailedFeatures |-> <<>>,
     newFeature         |-> Undefined,
     updatedFeatures    |-> <<>>,
     newVideos          |-> <<>>,
     validationVideos   |-> <<>>,
     previousModelResults |-> NoResults,
     newModelResults    |-> NoResults,
     failedFeature      |-> Undefined,
     videos             |-> <<>>,
     calls              |-> <<>>]

\* Nothing returned yet, nothing written yet.
NoReturn == [features |-> <<>>, videos |-> <<>>]

NoFile == [features |-> <<>>, failedFeatures |-> <<>>]

\* No call of the functions below is in flight.
NoCall == [op |-> "none"]

NoRank ==
    [pc |-> "none", error |-> "none", videos |-> <<>>, ollamaModel |-> FALSE,
     featureCount |-> 0, batchSize |-> 0, rankings |-> <<>>,
     failures |-> 0, requests |-> 0]

Init ==
    /\ features = BootstrapFeatures
    /\ failedFeatures = <<>>
    /\ featuredVideos = BootstrapVideos
    /\ index = 0
    /\ pc = "start"
    /\ step = NoStep
    /\ attempted = <<>>
    /\ returned = NoReturn
    /\ written = NoFile
    /\ call = NoCall
    /\ rank = NoRank

----------------------------------------------------------------------------
(* trainFeatureModel, updateFeatures, reportLogErrors *)

\* v.features[key] || 0
FeatureScore(v, key) ==
    IF key \in DOMAIN v.features /\ v.features[key] # NaN THEN v.features[key] ELSE 0

\* [...v.recentViews, ...FEATURE_KEYS.map(key => v.features[key] || 0)]
InputRow(fs, v) ==
    v.recentViews \o [i \in 1..Len(fs) |-> FeatureScore(v, fs[i].name)]

\* The weights ml-regression-multivariate-linear returns for a fit: one row per
\* input column (the auxiliary covariates, then the features), the intercept last.
LibraryWeights(auxWeights, coefs, intercept) == auxWeights \o coefs \o <<intercept>>

\* The weights of a fit on the videos of the run, with the given feature coefficients.
MlrWeights(coefs) ==
    LibraryWeights([j \in 1..RECENT_VIDEOS_COUNT |-> 0], coefs, 0)

trainFeatureModel(fs, videos, coefs) ==
    [mlr |-> [weights |-> MlrWeights(coefs)],
     X   |-> [i \in 1..Len(videos) |-> InputRow(fs, videos[i])],
     Y   |-> [i \in 1..Len(videos) |-> videos[i].logViews]]

\* A slice that takes the intercept for the first weight and the features for
\* the last ones.
featureCoefficientsInterceptFirst(weights) ==
    SubSeq(weights, 7, Len(weights))

\* const [_, ...featureCoefficients] = mlr.weights.slice(4, mlr.weights.length - 1)
featureCoefficientsOf(weights) ==
    LET sliced == SubSeq(weights, 5, Len(weights) - 1)
    IN  IF sliced = <<>> THEN <<>> ELSE Tail(sliced)

\* A check that only refuses a model with too few coefficients.
lengthMismatchWhenShort(featureCoefficients, FEATURE_KEYS) ==
    Len(featureCoefficients) < Len(FEATURE_KEYS)

\* featureCoefficients.length !== FEATURE_KEYS.length
lengthMismatch(featureCoefficients, FEATURE_KEYS) ==
    Len(featureCoefficients) # Len(FEATURE_KEYS)

\* The reduce with <= in the place of <: the last of the least important wins.
RECURSIVE leastFeatureIdxLast(_, _, _)
leastFeatureIdxLast(importance, idx, minIdx) ==
    IF idx > Len(importance) THEN minIdx
    ELSE leastFeatureIdxLast(importance, idx + 1,
            IF importance[idx] <= importance[minIdx] THEN idx ELSE minIdx)

\* featuresValue.reduce((minIdx, curr, idx, arr) =>
\*     curr.importance < arr[minIdx].importance ? idx : minIdx, 0), 1-based
RECURSIVE leastFeatureIdxFrom(_, _, _)
leastFeatureIdxFrom(importance, idx, minIdx) ==
    IF idx > Len(importance) THEN minIdx
    ELSE leastFeatureIdxFrom(importance, idx + 1,
            IF importance[idx] < importance[minIdx] THEN idx ELSE minIdx)

\* What updateFeatures gives when it throws: the error, and no features.
UpdateThrew(error) ==
    [threw |-> TRUE, error |-> error, bestFeatures |-> <<>>, worstFeature |-> Undefined,
     leastFeatureIdx |-> -1, featuresValue |-> <<>>]

\* updateFeatures without the filter: the least important feature stays.
updateFeaturesKeepsAll(fs, mlr) ==
    LET FEATURE_KEYS == [i \in 1..Len(fs) |-> fs[i].name]
        featureCoefficients == featureCoefficientsOf(mlr.weights)
        featuresValue == [i \in 1..Len(FEATURE_KEYS) |->
                             [name |-> FEATURE_KEYS[i],
                              importance |-> Abs(featureCoefficients[i])]]
        importance == [i \in 1..Len(FEATURE_KEYS) |-> featuresValue[i].importance]
        leastFeatureIdx == leastFeatureIdxFrom(importance, 1, 1)
    IN  IF lengthMismatch(featureCoefficients, FEATURE_KEYS)
        THEN UpdateThrew("Feature length mismatch")
        ELSE IF Len(fs) = 0 THEN UpdateThrew("TypeError")
        ELSE [threw           |-> FALSE,
              error           |-> "none",
              bestFeatures    |-> fs,
              worstFeature    |-> fs[leastFeatureIdx],
              leastFeatureIdx |-> leastFeatureIdx - 1,
              featuresValue   |-> featuresValue]

\* The result carries, next to bestFeatures and worstFeature, the locals the
\* function logs: leastFeatureIdx (0-based, as in the code) and featuresValue.
\* With no feature at all the reduce gives 0, features[0] is undefined and
\* worstFeature.name throws a TypeError.
updateFeatures(fs, mlr) ==
    LET FEATURE_KEYS == [i \in 1..Len(fs) |-> fs[i].name]
        featureCoefficients == featureCoefficientsOf(mlr.weights)
        featuresValue == [i \in 1..Len(FEATURE_KEYS) |->
                             [name |-> FEATURE_KEYS[i],
                              importance |-> Abs(featureCoefficients[i])]]
        importance == [i \in 1..Len(FEATURE_KEYS) |-> featuresValue[i].importance]
        leastFeatureIdx == leastFeatureIdxFrom(importance, 1, 1)
    IN  IF lengthMismatch(featureCoefficients, FEATURE_KEYS)
        THEN UpdateThrew("Feature length mismatch")
        ELSE IF Len(fs) = 0 THEN UpdateThrew("TypeError")
        ELSE [threw           |-> FALSE,
              error           |-> "none",
              bestFeatures    |-> SubSeq(fs, 1, leastFeatureIdx - 1)
                                    \o SubSeq(fs, leastFeatureIdx + 1, Len(fs)),
              worstFeature    |-> fs[leastFeatureIdx],
              leastFeatureIdx |-> leastFeatureIdx - 1,
              featuresValue   |-> featuresValue]

RECURSIVE sumAbsLogError(_, _, _)
sumAbsLogError(predLog, actualLog, i) ==
    IF i > Len(predLog) THEN 0
    ELSE LET rest == sumAbsLogError(predLog, actualLog, i + 1)
         IN  IF predLog[i] = NaN \/ actualLog[i] = NaN \/ rest = NaN THEN NaN
             ELSE Abs(predLog[i] - actualLog[i]) + rest

\* averageLogError is totalLogError / videoCount
reportLogErrors(predLog, actualLog) ==
    [totalLogError |-> sumAbsLogError(predLog, actualLog, 1),
     videoCount    |-> Len(predLog)]

\* The comparison with <= in the place of <.
averageLogErrorLessOrEqual(a, b) ==
    /\ a.videoCount > 0 /\ b.videoCount > 0
    /\ a.totalLogError # NaN /\ b.totalLogError # NaN
    /\ a.totalLogError * b.videoCount <= b.totalLogError * a.videoCount

\* a.averageLogError < b.averageLogError, in JavaScript: false when either
\* side is NaN (a NaN total, or 0 / 0 for an empty validation split)
averageLogErrorLess(a, b) ==
    /\ a.videoCount > 0 /\ b.videoCount > 0
    /\ a.totalLogError # NaN /\ b.totalLogError # NaN
    /\ a.totalLogError * b.videoCount < b.totalLogError * a.videoCount

----------------------------------------------------------------------------
(* The collaborators *)

\* failedFeatures.some(f => f.name === name): reading .name of undefined throws
hasWorstFeature(failed, name) ==
    LET matches == {i \in 1..Len(failed) : failed[i] # Undefined /\ failed[i].name = name}
        undefs  == {i \in 1..Len(failed) : failed[i] = Undefined}
    IN  IF undefs # {} /\ (matches = {} \/ Min(undefs) < Min(matches)) THEN Throw
        ELSE IF matches # {} THEN "true" ELSE "false"

\* What GemmaClient may do when asked for a feature: throw, or return an
\* object that passed featureSchema (any name); the object is a new one, so
\* its id is one no object of the run holds (every finished iteration
\* lengthens failedFeatures by one).
GemmaReplies ==
    {[threw |-> TRUE, feature |-> Undefined]} \cup
    {[threw |-> FALSE, feature |-> [name |-> n, id |-> Len(failedFeatures) + 1]]
     : n \in ProposalNames}

\* addFeature: the prompt lists the name of every failed feature (a TypeError
\* when one is undefined), then the reply of GemmaClient is returned.
addFeature(fs, failed, reply) ==
    IF Undefined \in Range(failed) THEN [threw |-> TRUE, feature |-> Undefined]
    ELSE reply

\* What rankVideos(videos, [feature]) may do in this run: throw, or return a
\* ranking for every video, all with the same score.
RankingReplies(videos, feature) ==
    {[threw |-> TRUE, rankings |-> <<>>]} \cup
    {[threw    |-> FALSE,
      rankings |-> [i \in 1..Len(videos) |->
                     [title |-> videos[i].title,
                      features |-> [n \in {feature.name} |-> s]]]]
     : s \in ScoreVals}

\* rankings.find(r => r.title === title)?.features[name] || 0
RankedScore(rankings, title, name) ==
    LET found == {i \in 1..Len(rankings) : rankings[i].title = title}
    IN  IF found = {} THEN 0
        ELSE LET r == rankings[Min(found)]
             IN  IF name \in DOMAIN r.features /\ r.features[name] # NaN
                 THEN r.features[name] ELSE 0

\* videos.map(v => ({...v, features: {...v.features, [name]: <ranked score>}}))
WithScores(videos, rankings, name) ==
    [i \in 1..Len(videos) |->
        [videos[i] EXCEPT !.features =
            [n \in DOMAIN videos[i].features \cup {name} |->
                IF n = name THEN RankedScore(rankings, videos[i].title, name)
                ELSE videos[i].features[n]]]]

----------------------------------------------------------------------------
(* runReflexion and reflexionStep *)

\* A catch that gives up the run: no later index is attempted.
CatchAborts ==
    /\ index' = MaxIterations
    /\ pc' = "start"
    /\ step' = NoStep
    /\ UNCHANGED <<features, failedFeatures, featuredVideos>>

\* catch (err) { console.error(...) } and the loop's index++
Catch ==
    /\ index' = index + 1
    /\ pc' = "start"
    /\ step' = NoStep
    /\ UNCHANGED <<features, failedFeatures, featuredVideos>>

\* One call of a collaborator by reflexionStep: the callee, the titles of the
\* videos and the names of the features it is given.
CallOf(callee, videos, fs) ==
    [callee   |-> callee,
     videos   |-> [i \in 1..Len(videos) |-> videos[i].title],
     features |-> [i \in 1..Len(fs) |-> fs[i].name]]

\* A scorer request for every feature of the candidate list.
scoredFeaturesAll(bestFeatures, newFeature) == Append(bestFeatures, newFeature)

\* rankVideos(training, [newFeature]), rankVideos(validation, [newFeature])
scoredFeatures(bestFeatures, newFeature) == <<newFeature>>

\* A list for the proposer that names the dropped feature once more when the
\* rejection history has it already.
fullFailedFeaturesAlways(has, failed, worstFeature) == Append(failed, worstFeature)

\* hasWorstFeature ? failedFeatures : [...failedFeatures, worstFeature]
fullFailedFeaturesOf(has, failed, worstFeature) ==
    IF has = "true" THEN failed ELSE Append(failed, worstFeature)

\* A split that trains on every video and validates on none.
trainingSizeAll(n) == n

\* Math.floor(shuffledData.length * 0.8)
trainingSizeOf(n) == (n * 8) \div 10

\* An input that hands every iteration the features of the bootstrap.
reflexionInputOfBootstrap ==
    [features |-> BootstrapFeatures, videos |-> featuredVideos,
     failedFeatures |-> failedFeatures]

\* const reflexionInput = { features, videos: featuredVideos, failedFeatures, dir, index }
reflexionInput ==
    [features |-> features, videos |-> featuredVideos, failedFeatures |-> failedFeatures]

\* reflexionStep up to the call of addFeature: shuffle, split, train, prune
StepBegin(perm, coefs) ==
    /\ pc = "start"
    /\ index < MaxIterations
    /\ UNCHANGED <<returned, written, call, rank>>
    /\ attempted' = Append(attempted, index)
    /\ LET input        == reflexionInput
           n            == Len(input.videos)
           shuffledData == [i \in 1..n |-> input.videos[perm[i]]]
           trainingSize == trainingSizeOf(n)
           training     == SubSeq(shuffledData, 1, trainingSize)
           validation   == SubSeq(shuffledData, trainingSize + 1, n)
           model        == trainFeatureModel(input.features, training, coefs)
           upd          == updateFeatures(input.features, model.mlr)
           has          == IF upd.threw THEN Throw
                           ELSE hasWorstFeature(input.failedFeatures, upd.worstFeature.name)
       IN  IF has = Throw THEN Catch
           ELSE /\ step' = [NoStep EXCEPT
                              !.features = input.features,
                              !.training = training,
                              !.validation = validation,
                              !.bestFeatures = upd.bestFeatures,
                              !.worstFeature = upd.worstFeature,
                              !.fullFailedFeatures =
                                  fullFailedFeaturesOf(has, input.failedFeatures,
                                                       upd.worstFeature),
                              !.calls = <<CallOf("trainFeatureModel", training,
                                                 input.features)>>]
                /\ pc' = "proposing"
                /\ UNCHANGED <<features, failedFeatures, featuredVideos, index>>

\* const newFeature = await addFeature(bestFeatures, worstPredictions, fullFailedFeatures)
Propose(reply) ==
    /\ pc = "proposing"
    /\ UNCHANGED <<returned, written, call, rank>>
    /\ (~reply.threw) => (Len(failedFeatures) < MaxFailed)
    /\ LET newFeature == addFeature(step.bestFeatures, step.fullFailedFeatures, reply)
       IN  IF newFeature.threw THEN Catch
           ELSE /\ step' = [step EXCEPT
                              !.newFeature = newFeature.feature,
                              !.calls = Append(@, CallOf("rankVideos", step.training,
                                  scoredFeatures(step.bestFeatures, newFeature.feature)))]
                /\ pc' = "scoringTraining"
                /\ UNCHANGED <<features, failedFeatures, featuredVideos, index>>
    /\ UNCHANGED attempted

\* const newRankings = await rankVideos(training, [newFeature]); the candidate
\* set and the training videos with the new score; the new model is trained
ScoreTraining(newRankings) ==
    /\ pc = "scoringTraining"
    /\ UNCHANGED <<returned, written, call, rank>>
    /\ IF newRankings.threw THEN Catch
       ELSE /\ step' = [step EXCEPT
                          !.updatedFeatures = Append(step.bestFeatures, step.newFeature),
                          !.newVideos = WithScores(step.training, newRankings.rankings,
                                                   step.newFeature.name),
                          !.calls = @ \o
                              <<CallOf("trainFeatureModel", step.training,
                                       Append(step.bestFeatures, step.newFeature)),
                                CallOf("predict", step.validation, step.features),
                                CallOf("rankVideos", step.validation,
                                       scoredFeatures(step.bestFeatures, step.newFeature))>>]
            /\ pc' = "scoringValidation"
            /\ UNCHANGED <<features, failedFeatures, featuredVideos, index>>
    /\ UNCHANGED attempted

\* features.find(f => !updatedFeatures.some(uf => uf.name === f.name))!
failedFeatureOf(fs, updatedFeatures) ==
    LET gone == {i \in 1..Len(fs) : fs[i].name \notin Names(updatedFeatures)}
    IN  IF gone = {} THEN Undefined ELSE fs[Min(gone)]

\* A variant of the returned videos that leaves the validation split out.
stepVideosOfTraining(newVideos, validationVideos) == newVideos

\* videos: [newVideos, validationVideos].flat()
stepVideos(newVideos, validationVideos) == newVideos \o validationVideos

\* reflexionStep from the validation of the old model to its return
ScoreValidation(validation_rankings, previousModel_predictions, newModel_predictions) ==
    /\ pc = "scoringValidation"
    /\ UNCHANGED <<returned, written, call, rank>>
    /\ IF validation_rankings.threw THEN Catch
       ELSE LET validation_Y == [i \in 1..Len(step.validation) |-> step.validation[i].logViews]
                validationVideos == WithScores(step.validation, validation_rankings.rankings,
                                               step.newFeature.name)
            IN  /\ step' = [step EXCEPT
                              !.previousModelResults =
                                  reportLogErrors(previousModel_predictions, validation_Y),
                              !.validationVideos = validationVideos,
                              !.newModelResults =
                                  reportLogErrors(newModel_predictions, validation_Y),
                              !.failedFeature =
                                  failedFeatureOf(step.features, step.updatedFeatures),
                              !.videos = stepVideos(step.newVideos, validationVideos),
                              !.calls = Append(@, CallOf("predict", step.validation,
                                                         step.updatedFeatures))]
                /\ pc' = "deciding"
                /\ UNCHANGED <<features, failedFeatures, featuredVideos, index>>
    /\ UNCHANGED attempted

\* const improved = newModelResults.averageLogError < previousModelResults.averageLogError
improved == averageLogErrorLess(step.newModelResults, step.previousModelResults)

\* A decision that remembers the dropped feature on a rejection too.
DecidePushesDropped ==
    /\ pc = "deciding"
    /\ UNCHANGED <<returned, written, call, rank>>
    /\ featuredVideos' = step.videos
    /\ features' = IF improved THEN step.updatedFeatures ELSE features
    /\ failedFeatures' = Append(failedFeatures, step.failedFeature)
    /\ index' = index + 1
    /\ pc' = "start"
    /\ step' = NoStep
    /\ UNCHANGED attempted

\* A decision that leaves the loop when the candidate did not improve.
DecideStopsOnReject ==
    /\ pc = "deciding"
    /\ UNCHANGED <<returned, written, call, rank>>
    /\ featuredVideos' = step.videos
    /\ IF improved
       THEN /\ features' = step.updatedFeatures
            /\ failedFeatures' = Append(failedFeatures, step.failedFeature)
            /\ index' = index + 1
       ELSE /\ features' = features
            /\ failedFeatures' = Append(failedFeatures, step.newFeature)
            /\ index' = MaxIterations
    /\ pc' = "start"
    /\ step' = NoStep
    /\ UNCHANGED attempted

\* A decision that takes the candidate list whatever the comparison says.
DecideAlwaysTakes ==
    /\ pc = "deciding"
    /\ UNCHANGED <<returned, written, call, rank>>
    /\ featuredVideos' = step.videos
    /\ features' = step.updatedFeatures
    /\ failedFeatures' = Append(failedFeatures,
                                IF improved THEN step.failedFeature ELSE step.newFeature)
    /\ index' = index + 1
    /\ pc' = "start"
    /\ step' = NoStep
    /\ UNCHANGED attempted

\* runReflexion after reflexionStep has returned: the accept/reject decision
Decide ==
    /\ pc = "deciding"
    /\ UNCHANGED <<returned, written, call, rank>>
    /\ featuredVideos' = step.videos
    /\ IF improved
       THEN /\ features' = step.updatedFeatures
            /\ failedFeatures' = Append(failedFeatures, step.failedFeature)
       ELSE /\ features' = features
            /\ failedFeatures' = Append(failedFeatures, step.newFeature)
    /\ index' = index + 1
    /\ pc' = "start"
    /\ step' = NoStep
    /\ UNCHANGED attempted

\* A return that hands the caller the bootstrap features instead of the
\* best-known ones.
FinishReturnsBootstrap ==
    /\ pc = "start"
    /\ index >= MaxIterations
    /\ written' = [features |-> features, failedFeatures |-> failedFeatures]
    /\ IF Undefined \in Range(failedFeatures)
       THEN /\ pc' = "threw"
            /\ returned' = returned
       ELSE /\ pc' = "returned"
            /\ returned' = [features |-> BootstrapFeatures, videos |-> featuredVideos]
    /\ UNCHANGED <<features, failedFeatures, featuredVideos, index, step, attempted,
                   call, rank>>

\* After the loop: the files are written, the names are logged
\* (failedFeatures.map(f => f.name) throws on undefined), the result is returned
Finish ==
    /\ pc = "start"
    /\ index >= MaxIterations
    /\ written' = [features |-> features, failedFeatures |-> failedFeatures]
    /\ IF Undefined \in Range(failedFeatures)
       THEN /\ pc' = "threw"
            /\ returned' = returned
       ELSE /\ pc' = "returned"
            /\ returned' = [features |-> features, videos |-> featuredVideos]
    /\ UNCHANGED <<features, failedFeatures, featuredVideos, index, step, attempted,
                   call, rank>>

Predictions(n) == [1..n -> PredVals \cup {NaN}]

Next ==
    \/ \E perm \in Shuffles(Len(featuredVideos)) :
         \E coefs \in [1..Len(features) -> CoefVals] : StepBegin(perm, coefs)
    \/ \E reply \in GemmaReplies : Propose(reply)
    \/ \E r \in RankingReplies(step.training, step.newFeature) : ScoreTraining(r)
    \/ \E r \in RankingReplies(step.validation, step.newFeature) :
         \E p1, p2 \in Predictions(Len(step.validation)) : ScoreValidation(r, p1, p2)
    \/ Decide
    \/ Finish

Spec == Init /\ [][Next]_vars

\* The event loop runs every continuation that is ready.
FairSpec == Spec /\ WF_vars(Next)

----------------------------------------------------------------------------
(* getWorstPredictions and the two lists of updatePrompt *)

\* The place of x in the descending order of s, behind every equal value.
RECURSIVE insertDescending(_, _)
insertDescending(s, x) ==
    IF s = <<>> THEN <<x>>
    ELSE IF Head(s) >= x THEN <<Head(s)>> \o insertDescending(Tail(s), x)
    ELSE <<x>> \o s

\* diffs.slice().sort((a, b) => b - a)
RECURSIVE sortDescending(_)
sortDescending(diffs) ==
    IF diffs = <<>> THEN <<>>
    ELSE insertDescending(sortDescending(SubSeq(diffs, 1, Len(diffs) - 1)),
                          diffs[Len(diffs)])

\* diffs.indexOf(d), 1-based: the first place that holds d
indexOf(diffs, d) == Min({i \in 1..Len(diffs) : diffs[i] = d})

\* actual and predicted are kept in log scale (the code reports Math.exp(.) - 1
\* of them); idx is the place of the video in the input, 0-based.
getWorstPredictions(videos, predictions, Y) ==
    LET diffs        == [i \in 1..Len(predictions) |-> Abs(predictions[i] - Y[i])]
        sortedDiffs  == sortDescending(diffs)
        worstDiffs   == SubSeq(sortedDiffs, 1,
                               IF Len(sortedDiffs) < WORST_COUNT THEN Len(sortedDiffs)
                               ELSE WORST_COUNT)
        worstIndices == [k \in 1..Len(worstDiffs) |-> indexOf(diffs, worstDiffs[k])]
    IN  [k \in 1..Len(worstIndices) |->
            LET idx == worstIndices[k]
            IN  [title     |-> videos[idx],
                 idx       |-> idx - 1,
                 actual    |-> Y[idx],
                 predicted |-> predictions[idx],
                 delta     |-> predictions[idx] - Y[idx]]]

\* A first list that also takes the predictions that were exact.
RECURSIVE underPredictedOrExact(_)
underPredictedOrExact(predictions) ==
    IF predictions = <<>> THEN <<>>
    ELSE (IF Head(predictions).delta <= 0 THEN <<Head(predictions)>> ELSE <<>>)
         \o underPredictedOrExact(Tail(predictions))

\* predictions.filter(({ delta }) => delta < 0)
RECURSIVE underPredicted(_)
underPredicted(predictions) ==
    IF predictions = <<>> THEN <<>>
    ELSE (IF Head(predictions).delta < 0 THEN <<Head(predictions)>> ELSE <<>>)
         \o underPredicted(Tail(predictions))

\* predictions.filter(({ delta }) => delta > 0)
RECURSIVE overPredicted(_)
overPredicted(predictions) ==
    IF predictions = <<>> THEN <<>>
    ELSE (IF Head(predictions).delta > 0 THEN <<Head(predictions)>> ELSE <<>>)
         \o overPredicted(Tail(predictions))

\* The two lists of worst predictions the prompt of the proposer shows.
updatePrompt(predictions) ==
    [underPredicted |-> underPredicted(predictions),
     overPredicted  |-> overPredicted(predictions)]

----------------------------------------------------------------------------
(* Calls of updateFeatures and of getWorstPredictions on their own *)

VideoTitles(n) == [i \in 1..n |-> i]

\* Five videos with the deltas -2, 0.5, 3, -0.1, 1 (in units of 0.1).
FiveVideos ==
    [videos |-> VideoTitles(5), predictions |-> <<-20, 5, 30, -1, 10>>,
     Y |-> <<0, 0, 0, 0, 0>>]

\* One more video than the function keeps, every one with a delta of its own.
ManyVideos ==
    [videos |-> VideoTitles(WORST_COUNT + 1),
     predictions |-> [i \in 1..(WORST_COUNT + 1) |-> i],
     Y |-> [i \in 1..(WORST_COUNT + 1) |-> 0]]

WorstPredictionsInputs ==
    {FiveVideos, ManyVideos} \cup
    UNION {{[videos |-> VideoTitles(n), predictions |-> p, Y |-> y] :
               p \in [1..n -> CallPredVals], y \in [1..n -> ActualVals]} : n \in 0..MaxVideos}

\* updateFeatures(features, mlr) on the first k of CallNames and a model fitted
\* on aux auxiliary covariates and Len(coefs) feature columns.
UpdateFeaturesCall(k, coefs, aux, auxWeight, intercept) ==
    /\ call.op = "none"
    /\ LET fs  == [i \in 1..k |-> [name |-> CallNames[i], id |-> 0]]
           mlr == [weights |-> LibraryWeights([j \in 1..aux |-> auxWeight], coefs, intercept)]
       IN  call' = [op        |-> "updateFeatures",
                    features  |-> fs,
                    aux       |-> aux,
                    coefs     |-> coefs,
                    auxWeight |-> auxWeight,
                    intercept |-> intercept,
                    mlr       |-> mlr,
                    out       |-> updateFeatures(fs, mlr)]
    /\ UNCHANGED <<features, failedFeatures, featuredVideos, index, pc, step, attempted,
                   returned, written, rank>>

\* getWorstPredictions(training, mlr, X, Y), and the lists updatePrompt makes of
\* its result
WorstPredictionsCall(input) ==
    /\ call.op = "none"
    /\ LET worstPredictions == getWorstPredictions(input.videos, input.predictions, input.Y)
       IN  call' = [op          |-> "getWorstPredictions",
                    videos      |-> input.videos,
                    predictions |-> input.predictions,
                    Y           |-> input.Y,
                    out         |-> worstPredictions,
                    prompt      |-> updatePrompt(worstPredictions)]
    /\ UNCHANGED <<features, failedFeatures, featuredVideos, index, pc, step, attempted,
                   returned, written, rank>>

\* What one attempt of a client may end in: a reply that parses and passes
\* the schema, such a reply when the log file of the attempt cannot be written
\* (nor the fallback log file), a reply that does not parse or does not pass
\* the schema, a request that fails.
AttemptOutcomes == {"valid", "validUnlogged", "invalid", "error"}

\* An attempt of GemmaClient: a failure to write the log is caught and logged
\* ('Logging failed, proceeding...'), the attempt goes on to its return.
gemmaAttempt(outcome) == IF outcome = "validUnlogged" THEN "valid" ELSE outcome

\* An attempt of OllamaClient: when the log cannot be written the catch writes
\* a fallback log with writeFileSync; when that throws too, the throw reaches
\* the catch of the attempt, which records it as the attempt's error.
ollamaAttempt(outcome) == IF outcome = "validUnlogged" THEN "error" ELSE outcome

\* A client that goes on to a second attempt when the first one fails.
RECURSIVE clientAttemptsTwice(_, _, _)
clientAttemptsTwice(maxAttempts, outcomes, attempt) ==
    IF attempt > maxAttempts + 1 THEN [threw |-> TRUE, attempts |-> maxAttempts + 1]
    ELSE IF outcomes[attempt] = "valid" THEN [threw |-> FALSE, attempts |-> attempt]
    ELSE clientAttemptsTwice(maxAttempts, outcomes, attempt + 1)

\* for (let attempt = 1; attempt <= maxAttempts; attempt++) { ...
\*     if (valid) return parsed ... } throw lastError
RECURSIVE clientAttempts(_, _, _)
clientAttempts(maxAttempts, outcomes, attempt) ==
    IF attempt > maxAttempts THEN [threw |-> TRUE, attempts |-> maxAttempts]
    ELSE IF outcomes[attempt] = "valid" THEN [threw |-> FALSE, attempts |-> attempt]
    ELSE clientAttempts(maxAttempts, outcomes, attempt + 1)

\* GemmaClient throws before any attempt when no API key is configured.
GemmaClient(configured, outcomes) ==
    IF ~configured THEN [threw |-> TRUE, attempts |-> 0]
    ELSE clientAttempts(GEMMA_MAX_ATTEMPTS,
                        [a \in 1..Len(outcomes) |-> gemmaAttempt(outcomes[a])], 1)

OllamaClient(outcomes) ==
    clientAttempts(OLLAMA_MAX_ATTEMPTS,
                   [a \in 1..Len(outcomes) |-> ollamaAttempt(outcomes[a])], 1)

\* One call of GemmaClient (by addFeature or rankVideos) or of OllamaClient,
\* against the outcomes its attempts would have, in order.
ClientCall(backend, configured, outcomes) ==
    /\ call.op = "none"
    /\ call' = [op         |-> "client",
                backend    |-> backend,
                configured |-> configured,
                outcomes   |-> outcomes,
                out        |-> IF backend = "gemma" THEN GemmaClient(configured, outcomes)
                               ELSE OllamaClient(outcomes)]
    /\ UNCHANGED <<features, failedFeatures, featuredVideos, index, pc, step, attempted,
                   returned, written, rank>>

\* Math.log(x), in thousandths, for the arguments views + 1 of the view
\* counts below.
MathLog(x) ==
    CASE x = 1   -> 0
      [] x = 3   -> 1099
      [] x = 10  -> 2303

\* The channel's videos, oldest first: the i-th has one of the view counts.
ViewVals == {0, 2, 9}

HistoryVideos(views) == [i \in 1..Len(views) |-> [id |-> i, views |-> views[i]]]

\* A variant that keeps the videos with a short history.
getRecentVideosUnfiltered(videos) ==
    [j \in 1..Len(videos) |->
        LET i     == j - 1
            start == IF i - RECENT_VIDEOS_COUNT > 0 THEN i - RECENT_VIDEOS_COUNT ELSE 0
        IN  [video       |-> videos[j],
             recentViews |-> [k \in 1..(i - start) |-> MathLog(videos[start + k].views + 1)]]]

\* getRecentVideos(videos): i is the 0-based index of the video, start is
\* Math.max(0, i - RECENT_VIDEOS_COUNT), videos.slice(start, i) holds the
\* videos of 0-based index start..i-1, and the filter keeps the entries with
\* RECENT_VIDEOS_COUNT recent views.
getRecentVideos(videos) ==
    LET mapped ==
            [j \in 1..Len(videos) |->
                LET i     == j - 1
                    start == IF i - RECENT_VIDEOS_COUNT > 0 THEN i - RECENT_VIDEOS_COUNT ELSE 0
                IN  [video       |-> videos[j],
                     recentViews |-> [k \in 1..(i - start) |->
                                         MathLog(videos[start + k].views + 1)]]]
    IN  SelectSeq(mapped, LAMBDA e : Len(e.recentViews) = RECENT_VIDEOS_COUNT)

\* One call of getRecentVideos on a channel's videos.
RecentVideosCall(videos) ==
    /\ call.op = "none"
    /\ call' = [op     |-> "getRecentVideos",
                videos |-> videos,
                out    |-> getRecentVideos(videos)]
    /\ UNCHANGED <<features, failedFeatures, featuredVideos, index, pc, step, attempted,
                   returned, written, rank>>

\* The recent views of the videos trainReflexion is given (multiples of
\* RECENT_VIDEOS_COUNT, so that their mean is on the integer grid).
RecentVals == {0, 5}

\* iTrainingVideo: the videos trainReflexion is given, from place `from` on, all
\* with the same recent views.
TrainingVideos(from, n, recentViews) ==
    [i \in 1..n |-> [title |-> from + i, logViews |-> from + i, recentViews |-> recentViews]]

RECURSIVE sumOf(_, _)
sumOf(xs, i) == IF i > Len(xs) THEN 0 ELSE xs[i] + sumOf(xs, i + 1)

\* video.recentViews.reduce((a, b) => a + b, 0) / video.recentViews.length
meanRecentViews(video) ==
    IF Len(video.recentViews) = 0 THEN NaN
    ELSE sumOf(video.recentViews, 1) \div Len(video.recentViews)

\* rankVideos(videos, fs) when the scorer ranks every video, every feature
\* with the same score.
FullRankings(videos, fs) ==
    [i \in 1..Len(videos) |->
        [title |-> videos[i].title, features |-> [n \in Names(fs) |-> BootstrapScore]]]

\* validation_rankings.map(v => [mean of the video's recentViews,
\*                                ...fs.map(f => v.features[f.name] || 0)])
validationRows(validation_rankings, validation, fs) ==
    [k \in 1..Len(validation_rankings) |->
        LET v     == validation_rankings[k]
            video == validation[Min({i \in 1..Len(validation) :
                                        validation[i].title = v.title})]
        IN  <<meanRecentViews(video)>> \o [i \in 1..Len(fs) |-> FeatureScore(v, fs[i].name)]]

\* trainReflexion(training, validation) with the scorer ranking every video,
\* the proposer's reply and the coefficients of the first fit given: the rows
\* the two models are trained on and the rows they predict.
trainReflexion(training, validation, reply, coefs) ==
    LET fs            == BootstrapFeatures
        rankings      == FullRankings(training, fs)
        videos        == [i \in 1..Len(rankings) |->
                             [training[i] EXCEPT !.title = rankings[i].title]
                                 @@ [features |-> rankings[i].features]]
        model         == trainFeatureModel(fs, videos, coefs)
        upd           == updateFeatures(fs, model.mlr)
        newFeature    == addFeature(upd.bestFeatures, <<>>, reply)
    IN  IF upd.threw \/ newFeature.threw
        THEN [threw |-> TRUE, features |-> <<>>, updatedFeatures |-> <<>>,
              X |-> <<>>, newX |-> <<>>, validation_X1 |-> <<>>, validation_X2 |-> <<>>]
        ELSE LET newRankings     == FullRankings(training, <<newFeature.feature>>)
                 newVideos       == WithScores(videos, newRankings, newFeature.feature.name)
                 updatedFeatures == Append(upd.bestFeatures, newFeature.feature)
                 newModel        == trainFeatureModel(updatedFeatures, newVideos, coefs)
                 allFeatures     == Append(fs, newFeature.feature)
                 validation_rankings == FullRankings(validation, allFeatures)
             IN  [threw           |-> FALSE,
                  features        |-> fs,
                  updatedFeatures |-> updatedFeatures,
                  X               |-> model.X,
                  newX            |-> newModel.X,
                  validation_X1   |-> validationRows(validation_rankings, validation, fs),
                  validation_X2   |-> validationRows(validation_rankings, validation,
                                                     updatedFeatures)]

\* One call of trainReflexion.
TrainReflexionCall(training, validation, reply, coefs) ==
    /\ call.op = "none"
    /\ call' = [op         |-> "trainReflexion",
                training   |-> training,
                validation |-> validation,
                out        |-> trainReflexion(training, validation, reply, coefs)]
    /\ UNCHANGED <<features, failedFeatures, featuredVideos, index, pc, step, attempted,
                   returned, written, rank>>

\* An arXiv id is a string; form tells apart the strings that norm makes
\* equal (form 0 is the trimmed, lower-case id without a version suffix).
ArxivId(base, form) == [base |-> base, form |-> form]

\* norm: s.trim().toLowerCase().replace(/v\d+$/i, "")
norm(id) == [id EXCEPT !.form = 0]

\* A title that is not a vector (a string, or null); no vector of the model
\* has three places.
NoVector == <<-1, -1, -1>>

\* vecFromRef: the title of the reference when it is an array of numbers
isNumArray(v) == v # NoVector

\* Math.sqrt, on the squared norms of the vectors below.
MathSqrt(x) ==
    CASE x = 0  -> 0
      [] x = 1  -> 1
      [] x = 25 -> 5

RECURSIVE dotProduct(_, _, _)
dotProduct(a, b, i) == IF i > Len(a) THEN 0 ELSE a[i] * b[i] + dotProduct(a, b, i + 1)

\* cosineDist(a, b) throws for vectors of different dimensions and for a
\* vector of norm zero.
cosineDistThrows(a, b) ==
    \/ Len(a) # Len(b)
    \/ MathSqrt(dotProduct(a, a, 1)) * MathSqrt(dotProduct(b, b, 1)) = 0

\* cosineDist(a, b) when it does not throw, in hundredths:
\* 1 - dot / (sqrt(na) * sqrt(nb))
cosineDist(a, b) ==
    LET denom == MathSqrt(dotProduct(a, a, 1)) * MathSqrt(dotProduct(b, b, 1))
    IN  100 - ((100 * dotProduct(a, b, 1)) \div denom)

\* The vectors of the embedded references: of norm 1 or 5, or not a vector.
VecChoices == {<<1, 0>>, <<3, 4>>, NoVector}

\* The vectors the target may have: usable ones, one of norm zero, none.
TargetChoices == {<<1, 0>>, <<0, 1>>, <<0, 0>>, NoVector}

\* seedJson.references: one reference per base id, under a versioned form of
\* the id, with the vector (or the title) the embedding file holds for it.
SeedRefs(emb) == [b \in 1..Len(emb) |-> [arxivId |-> ArxivId(b, 1), title |-> emb[b]]]

\* seedVecById.get(key): the vector of the last reference with a string id of
\* that norm and a vector, or NoVector (undefined) when there is none.
seedVec(seedRefs, key) ==
    LET found == {i \in 1..Len(seedRefs) :
                     norm(seedRefs[i].arxivId) = key /\ isNumArray(seedRefs[i].title)}
    IN  IF found = {} THEN NoVector
        ELSE seedRefs[CHOOSE i \in found : \A j \in found : j <= i].title

\* ordered.sort((a, b) => a.distance - b.distance): a stable sort, ascending
RECURSIVE insertByDistance(_, _)
insertByDistance(sorted, x) ==
    IF Len(sorted) = 0 THEN <<x>>
    ELSE IF sorted[Len(sorted)].distance <= x.distance THEN Append(sorted, x)
    ELSE Append(insertByDistance(SubSeq(sorted, 1, Len(sorted) - 1), x), sorted[Len(sorted)])

RECURSIVE sortByDistance(_)
sortByDistance(xs) ==
    IF Len(xs) = 0 THEN <<>>
    ELSE insertByDistance(sortByDistance(SubSeq(xs, 1, Len(xs) - 1)), xs[Len(xs)])

\* A rank that is the 0-based index.
rankOfIndex0(idx) == idx

\* const rank = idx >= 0 ? idx + 1 : 0
rankOfIndex(idx) == IF idx >= 0 THEN idx + 1 ELSE 0

RankThrew == [threw |-> TRUE, rank |-> 0, ordered |-> <<>>]

\* rankTargetProximity: seedRefs are the references of the seed's embedding
\* file, targetVec the title of the target's reference in the selected
\* source's file (NoVector when it is not found or not embedded).
rankTargetProximity(sources, selectedSource, seedRefs, targetVec) ==
    LET loaded  == SelectSeq([i \in 1..Len(sources) |->
                                 [arxivId |-> sources[i],
                                  vec     |-> seedVec(seedRefs, norm(sources[i]))]],
                             LAMBDA x : isNumArray(x.vec))
        mapped  == [i \in 1..Len(loaded) |->
                       [arxivId  |-> loaded[i].arxivId,
                        distance |-> cosineDist(loaded[i].vec, targetVec)]]
        ordered == sortByDistance(mapped)
        found   == {k \in 1..Len(ordered) : norm(ordered[k].arxivId) = norm(selectedSource)}
        idx     == IF found = {} THEN -1 ELSE Min(found) - 1
    IN  IF Len(seedRefs) = 0 THEN RankThrew
        ELSE IF ~isNumArray(targetVec) THEN RankThrew
        ELSE IF Len(loaded) = 0 THEN RankThrew
        ELSE IF \E i \in 1..Len(loaded) : cosineDistThrows(loaded[i].vec, targetVec)
             THEN RankThrew
        ELSE [threw |-> FALSE, rank |-> rankOfIndex(idx), ordered |-> ordered]

\* One call of rankTargetProximity.
RankTargetProximityCall(sources, selectedSource, emb, targetVec) ==
    /\ call.op = "none"
    /\ call' = [op             |-> "rankTargetProximity",
                sources        |-> sources,
                selectedSource |-> selectedSource,
                seedRefs       |-> SeedRefs(emb),
                targetVec      |-> targetVec,
                out            |-> rankTargetProximity(sources, selectedSource,
                                                       SeedRefs(emb), targetVec)]
    /\ UNCHANGED <<features, failedFeatures, featuredVideos, index, pc, step, attempted,
                   returned, written, rank>>

\* The inputs a function is applied to: those of the set while no function
\* was applied yet, none afterwards.
Inputs(S) == IF call.op = "none" THEN S ELSE {}

NextCalls ==
    \/ \E k \in Inputs(0..MaxFeatures) : \E n \in 0..MaxFeatures : \E coefs \in [1..n -> CallCoefVals] :
         \E aux \in 0..MaxAux : \E auxWeight \in AuxWeightVals : \E intercept \in InterceptVals :
            UpdateFeaturesCall(k, coefs, aux, auxWeight, intercept)
    \/ \E input \in Inputs(WorstPredictionsInputs) : WorstPredictionsCall(input)
    \/ \E backend \in Inputs({"gemma", "ollama"}) : \E configured \in BOOLEAN :
         \E outcomes \in [1..MaxOutcomes -> AttemptOutcomes] :
            (backend = "ollama" => configured) /\ ClientCall(backend, configured, outcomes)
    \/ \E n \in Inputs(0..MaxHistory) : \E views \in [1..n -> ViewVals] :
            RecentVideosCall(HistoryVideos(views))
    \/ \E nt, nv \in Inputs(1..MaxSplit) : \E recentViews \in [1..RECENT_VIDEOS_COUNT -> RecentVals] :
         \E reply \in GemmaReplies : \E coefs \in [1..K -> CoefVals] :
            TrainReflexionCall(TrainingVideos(0, nt, recentViews),
                               TrainingVideos(nt, nv, recentViews), reply, coefs)
    \/ \E n \in Inputs(0..MaxSources) : \E bases \in [1..n -> 1..MaxBases] :
         \E b \in 1..MaxBases : \E form \in 0..1 :
           \E emb \in [1..MaxBases -> VecChoices] : \E targetVec \in TargetChoices :
              RankTargetProximityCall([i \in 1..n |-> ArxivId(bases[i], 0)],
                                      ArxivId(b, form), emb, targetVec)

SpecCalls == Init /\ [][NextCalls]_vars

----------------------------------------------------------------------------
(* rankVideos *)

\* A title is a string; form tells apart the strings that have the same
\* NFKC normal form (form 0 is the normal form itself).
VideoTitle(i) == [base |-> i, form |-> 0]

\* title.normalize('NFKC')
NFKC(title) == [title EXCEPT !.form = 0]

\* Another string with the same normal form.
OtherForm(title) == [title EXCEPT !.form = 1]

\* The title of no video.
UnknownTitle == [base |-> 0, form |-> 0]

batchSizeOf(ollamaModel, featureCount) ==
    IF ollamaModel THEN OLLAMA_BATCH
    ELSE IF featureCount = 1 THEN SINGLE_FEATURE_BATCH ELSE GEMMA_BATCH

\* videos.filter(v => !rankings.find(r => r.title === v.title))
unrankedVideos(videos, rankings) ==
    SelectSeq(videos, LAMBDA v : \A k \in 1..Len(rankings) : rankings[k].title # v)

\* A variant of the batch that takes every unranked video.
batchOfAll(r) == unrankedVideos(r.videos, r.rankings)

\* unrankedVideos.slice(0, batchSize)
batchOf(r) ==
    LET unranked == unrankedVideos(r.videos, r.rankings)
    IN  SubSeq(unranked, 1, IF Len(unranked) < r.batchSize THEN Len(unranked) ELSE r.batchSize)

\* A JSON value in the place of a score: its JavaScript type and, for a
\* number, the number.
Number(x) == [type |-> "number", value |-> x]

AString == [type |-> "string", value |-> 0]

\* One entry of a reply, with the score of the one feature the model follows.
ScoredRanking(title, score) == [title |-> title, score |-> score]

Ranking(title) == ScoredRanking(title, Number(BootstrapScore))

\* The score the schema asks for: { type: 'number', minimum: 0, maximum: 10 }
SCORE_MINIMUM == 0

SCORE_MAXIMUM == 10

\* The arrays the language model may answer a batch with: a ranking for every
\* title, for the first title only, twice for the first title, for another
\* form of the first title, for a title that was not asked, none; a ranking
\* for every title with a score above the maximum; a ranking whose score is a
\* string.
ParsedReplies(batch) ==
    {<<>>,
     <<Ranking(UnknownTitle)>>,
     [k \in 1..Len(batch) |-> Ranking(batch[k])],
     <<Ranking(batch[1])>>,
     <<Ranking(batch[1]), Ranking(batch[1])>>,
     <<Ranking(OtherForm(batch[1]))>>,
     [k \in 1..Len(batch) |-> ScoredRanking(batch[k], Number(SCORE_MAXIMUM + 1))],
     <<ScoredRanking(batch[1], AString)>>}

\* validateAgainstSchema(parsed, rankingSchema(features)): an array whose
\* entries hold a number for the feature; the case 'number' compares the
\* JavaScript type only and reads neither minimum nor maximum.
validateAgainstSchema(parsed) ==
    \A k \in 1..Len(parsed) : parsed[k].score.type = "number"

\* What the client may give for a batch: a throw (a failed request, no JSON in
\* the answer, an answer that fails the validation), or the parsed array.
ClientReplies(batch) ==
    {[threw |-> TRUE, rankings |-> <<>>]} \cup
    {IF validateAgainstSchema(parsed) THEN [threw |-> FALSE, rankings |-> parsed]
     ELSE [threw |-> TRUE, rankings |-> <<>>] : parsed \in ParsedReplies(batch)}

\* batchRankings.filter(br => batch.find(v =>
\*     v.title.normalize('NFKC') === br.title.normalize('NFKC')))
validRankings(batchRankings, batch) ==
    SelectSeq(batchRankings,
              LAMBDA br : \E k \in 1..Len(batch) : NFKC(batch[k]) = NFKC(br.title))

\* The numbers of videos of a call: a few, a full batch, a full batch and one.
RankSizes(batchSize) == (1..MaxRanked) \cup {batchSize, batchSize + 1}

\* rankVideos(videos, features, ollamaModel) is called
RankCall(n, featureCount, ollamaModel) ==
    /\ rank.pc = "none"
    /\ n \in RankSizes(batchSizeOf(ollamaModel, featureCount))
    /\ rank' = [pc        |-> "loop",
                error     |-> "none",
                videos    |-> [i \in 1..n |-> VideoTitle(i)],
                ollamaModel  |-> ollamaModel,
                featureCount |-> featureCount,
                batchSize |-> batchSizeOf(ollamaModel, featureCount),
                rankings  |-> <<>>,
                failures  |-> 0,
                requests  |-> 0]
    /\ UNCHANGED <<features, failedFeatures, featuredVideos, index, pc, step, attempted,
                   returned, written, call>>

\* One pass of the while loop up to the await of the client: the loop ends, or
\* the retries are used up, or the next batch is sent
RankLoop ==
    /\ rank.pc = "loop"
    /\ LET unranked == unrankedVideos(rank.videos, rank.rankings)
       IN  IF Len(rank.rankings) >= Len(rank.videos) \/ Len(unranked) = 0
           THEN rank' = [rank EXCEPT !.pc = "writing"]
           ELSE IF Len(unranked) < rank.batchSize /\ rank.failures >= MAX_TRIES
           THEN rank' = [rank EXCEPT !.pc = "threw",
                                     !.error = "Max ranking retries exceeded."]
           ELSE /\ rank.requests < MaxRequests
                /\ rank' = [rank EXCEPT !.pc = "awaiting",
                                        !.failures = IF Len(unranked) < rank.batchSize
                                                     THEN @ + 1 ELSE @,
                                        !.requests = @ + 1]
    /\ UNCHANGED <<features, failedFeatures, featuredVideos, index, pc, step, attempted,
                   returned, written, call>>

\* The client settles: its throw is the throw of rankVideos, its rankings are
\* filtered and pushed
RankReply(reply) ==
    /\ rank.pc = "awaiting"
    /\ IF reply.threw
       THEN rank' = [rank EXCEPT !.pc = "threw", !.error = "client"]
       ELSE rank' = [rank EXCEPT !.pc = "loop",
                                 !.rankings = @ \o validRankings(reply.rankings, batchOf(rank))]
    /\ UNCHANGED <<features, failedFeatures, featuredVideos, index, pc, step, attempted,
                   returned, written, call>>

\* await writeFile(`./llm/data/rankings-${timestamp}.json`, ...); return rankings
RankWrite(ok) ==
    /\ rank.pc = "writing"
    /\ rank' = [rank EXCEPT !.pc = IF ok THEN "returned" ELSE "threw",
                            !.error = IF ok THEN "none" ELSE "writeFile"]
    /\ UNCHANGED <<features, failedFeatures, featuredVideos, index, pc, step, attempted,
                   returned, written, call>>

\* The replies the awaited client may settle with.
PendingReplies ==
    IF rank.pc = "awaiting" THEN ClientReplies(batchOf(rank)) ELSE {}

NextRank ==
    \/ \E n \in 1..(SINGLE_FEATURE_BATCH + 1) : \E featureCount \in 1..2 :
         \E ollamaModel \in BOOLEAN : RankCall(n, featureCount, ollamaModel)
    \/ RankLoop
    \/ \E reply \in PendingReplies : RankReply(reply)
    \/ \E ok \in BOOLEAN : RankWrite(ok)

SpecRank == Init /\ [][NextRank]_vars

----------------------------------------------------------------------------
(* Properties of runReflexion *)

InIteration == pc \in {"proposing", "scoringTraining", "scoringValidation", "deciding"}

Finished == pc \in {"returned", "threw"}

\* The candidate's name is the name of an active feature or of a feature of
\* the rejection history.
CandidateCollides ==
    step.newFeature.name \in Names(step.features) \cup Names(failedFeatures)

\* C1: the active feature list has K features in every reachable state of
\* the run (K the number of bootstrap features), whatever the proposer
\* returns, and so has every candidate set.
C1_ActiveCardinalityConstant ==
    /\ Len(features) = K
    /\ (pc \in {"scoringValidation", "deciding"}) => (Len(step.updatedFeatures) = K)

\* An accepted, a rejected and a skipped iteration have all taken place.
C1_Witness ==
    /\ pc = "start"
    /\ \E i \in 1..Len(features) : features[i].id > 0
    /\ \E i \in 1..Len(failedFeatures) : failedFeatures[i].id > 0
    /\ index > Len(failedFeatures)

\* C2: no feature name is in the active list and in the rejection history
\* at the same time.
C2_ActiveAndRejectedDisjoint ==
    Names(features) \cap Names(failedFeatures) = {}

\* C3: the active list never holds two features with the same name.
C3_NoDuplicateActiveNames ==
    \A i, j \in 1..Len(features) : (i # j) => (features[i].name # features[j].name)

\* C4: the decision replaces the active list by the candidate set when the
\* new model's mean absolute log error on the validation split is strictly
\* less than the old model's, and leaves it as it is when the errors are
\* equal or one is NaN; no other step changes the active list.
C4_AcceptIffStrictlyLess ==
    [][ LET new == step.newModelResults.totalLogError
            old == step.previousModelResults.totalLogError
            strictlyLess == /\ Len(step.validation) > 0
                            /\ new # NaN /\ old # NaN
                            /\ new < old
        IN  /\ (pc = "deciding" /\ strictlyLess) => (features' = step.updatedFeatures)
            /\ (pc = "deciding" /\ ~strictlyLess) => (features' = features)
            /\ (pc # "deciding") => (features' = features) ]_vars

\* After an accepted iteration, a decision between two equal errors is due.
C4_Witness ==
    /\ pc = "deciding"
    /\ \E i \in 1..Len(features) : features[i].id > 0
    /\ step.newModelResults.totalLogError = step.previousModelResults.totalLogError
    /\ step.newModelResults.totalLogError # NaN

\* C5: an accepted iteration appends exactly one entry to the rejection
\* history, the least important feature f_drop of that iteration (a Feature,
\* never undefined), and the active list becomes the active list without
\* f_drop, plus the candidate.
C5_AcceptRemembersDropped ==
    [][ (pc = "deciding" /\ improved) =>
            /\ step.worstFeature # Undefined
            /\ failedFeatures' = Append(failedFeatures, step.worstFeature)
            /\ failedFeatures'[Len(failedFeatures')] # Undefined
            /\ features' = Append(step.bestFeatures, step.newFeature) ]_vars

C7_NoRepeatRejection ==
    (pc = "deciding") => (step.newFeature.name \notin Names(failedFeatures))

\* C8: when the call of the proposer or of the scorer that reflexionStep
\* awaits throws (the step does not resume), the active list, the rejection
\* history and the featured videos stay as they were and the loop goes on
\* with the next index.
C8_ThrowSkipsIteration ==
    [][ LET awaiting == pc \in {"proposing", "scoringTraining", "scoringValidation"}
            resumed  == pc' \in {"scoringTraining", "scoringValidation", "deciding"}
        IN  (awaiting /\ ~resumed) =>
                /\ UNCHANGED <<features, failedFeatures, featuredVideos>>
                /\ index' = index + 1
                /\ pc' = "start" ]_vars

\* After a skipped iteration (no undefined entry, so a collaborator threw)
\* and a finished one, the loop is at a later index.
C8_Witness ==
    /\ pc = "proposing"
    /\ Undefined \notin Range(failedFeatures)
    /\ Len(failedFeatures) >= 1
    /\ index > Len(failedFeatures)

\* C9: an iteration whose candidate has the name of an active or of a
\* rejected feature is abandoned: nothing is accepted from it, the active
\* list and the rejection history stay as they were.
C9_CollisionAbandonsIteration ==
    [][ (InIteration /\ step.newFeature # Undefined /\ CandidateCollides) =>
            UNCHANGED <<features, failedFeatures>> ]_vars

C11_ReturnsRejectionHistory ==
    (pc = "returned") =>
        /\ "failedFeatures" \in DOMAIN returned
        /\ returned.features = features
        /\ returned.failedFeatures = failedFeatures

\* C11 (amended): a run that returns hands its caller the active feature list
\* and the videos with their scores, and nothing else; the rejection history is
\* in features.json, next to the active features, also when iterations were
\* skipped.
C11_ReturnsFeaturesAndVideos ==
    (pc = "returned") =>
        /\ returned = [features |-> features, videos |-> featuredVideos]
        /\ written = [features |-> features, failedFeatures |-> failedFeatures]

\* A run has returned after an accepted candidate, a rejected one and skipped
\* iterations.
C11_Witness ==
    /\ pc = "returned"
    /\ features # BootstrapFeatures
    /\ Len(failedFeatures) >= 2
    /\ Len(failedFeatures) < MaxIterations

\* C12: no outcome of the proposer and the scorer makes runReflexion throw.
C12_RunNeverThrows == pc # "threw"

----------------------------------------------------------------------------
(* Properties of updateFeatures *)

\* updateFeatures was called with a model fitted on the features it was given.
FittedOnFeatures ==
    /\ call.op = "updateFeatures"
    /\ Len(call.coefs) = Len(call.features)

\* K = 2, no auxiliary covariate, coefficients (intercept 1.0, len 0.1, caps 5.0).
ScenarioA ==
    /\ FittedOnFeatures
    /\ Len(call.features) = 2
    /\ call.aux = 0
    /\ call.coefs = <<1, 50>>
    /\ call.intercept = 10

\* C13: when updateFeatures returns, the feature it drops has the smallest
\* absolute coefficient, and is the first such feature in feature order; the
\* coefficients and the order alone fix its index and its name.
C13_LeastImportantIsFirstSmallest ==
    (FittedOnFeatures /\ ~call.out.threw) =>
        LET i == call.out.leastFeatureIdx + 1
        IN  /\ i \in 1..Len(call.features)
            /\ \A j \in 1..Len(call.features) : Abs(call.coefs[i]) <= Abs(call.coefs[j])
            /\ \A j \in 1..(i - 1) : Abs(call.coefs[j]) > Abs(call.coefs[i])
            /\ call.out.worstFeature = call.features[i]
            /\ call.out.featuresValue[i].name = call.features[i].name

\* Three features, the last two tied (2 and -2) below the first: the second is dropped.
C13_Witness ==
    /\ FittedOnFeatures
    /\ ~call.out.threw
    /\ call.coefs = <<50, -2, 2>>
    /\ call.out.leastFeatureIdx = 1
    /\ call.out.worstFeature.name = "caps"

----------------------------------------------------------------------------
(* Properties of getWorstPredictions and of the lists of updatePrompt *)

\* The places of the input in descending order of |predicted - actual|, equal
\* magnitudes in input order (1-based).
WorstOrder(predictions, Y) ==
    LET n == Len(predictions)
        magnitude(i) == Abs(predictions[i] - Y[i])
        before(i) == {j \in 1..n : \/ magnitude(j) > magnitude(i)
                                   \/ magnitude(j) = magnitude(i) /\ j < i}
    IN  [r \in 1..n |-> CHOOSE i \in 1..n : Cardinality(before(i)) = r - 1]

\* C16: getWorstPredictions returns min(20, n) entries: the entities with the
\* largest |predicted - actual| in log scale, in descending order of it,
\* entities of equal magnitude in input order.
C16_WorstAreLargestInStableOrder ==
    (call.op = "getWorstPredictions") =>
        LET n     == Len(call.predictions)
            order == WorstOrder(call.predictions, call.Y)
        IN  /\ Len(call.out) = (IF n < WORST_COUNT THEN n ELSE WORST_COUNT)
            /\ \A r \in 1..Len(call.out) :
                   /\ call.out[r].idx + 1 = order[r]
                   /\ call.out[r].title = call.videos[order[r]]
                   /\ call.out[r].delta = call.predictions[order[r]] - call.Y[order[r]]

\* C17: the list of the under-predicted holds the worst predictions with
\* delta < 0 and the list of the over-predicted those with delta > 0, each in
\* the order of the worst predictions; no prediction is in both, and every
\* one with a non-zero delta is in exactly one.
C17_PromptListsPartition ==
    (call.op = "getWorstPredictions") =>
        LET p == call.out
            u == call.prompt.underPredicted
            o == call.prompt.overPredicted
        IN  /\ u = SelectSeq(p, LAMBDA e : e.delta < 0)
            /\ o = SelectSeq(p, LAMBDA e : e.delta > 0)
            /\ Range(u) \cap Range(o) = {}
            /\ \A i \in 1..Len(p) :
                   (p[i].delta # 0) => ((p[i] \in Range(u)) # (p[i] \in Range(o)))
            /\ Len(u) + Len(o) = Cardinality({i \in 1..Len(p) : p[i].delta # 0})

\* Three worst predictions: one too low, one exact, one too high.
C17_Witness ==
    /\ call.op = "getWorstPredictions"
    /\ Len(call.out) = 3
    /\ Len(call.prompt.underPredicted) = 1
    /\ Len(call.prompt.overPredicted) = 1

----------------------------------------------------------------------------
(* Properties of the call of the proposer *)

\* C18: when an iteration reaches the call of the proposer, the features it
\* passes are the active ones without the dropped feature, the rejected ones it
\* passes are the rejection history followed by the dropped feature when no
\* entry of the history has its name, and the history itself when one has; the
\* rejection history of the run is as it was.
C18_ProposerArguments ==
    [][(pc = "start" /\ pc' = "proposing") =>
          /\ failedFeatures' = failedFeatures
          /\ features' = features
          /\ \E i \in 1..Len(features) :
                /\ step'.worstFeature = features[i]
                /\ step'.bestFeatures =
                      SubSeq(features, 1, i - 1) \o SubSeq(features, i + 1, Len(features))
          /\ step'.fullFailedFeatures =
                IF step'.worstFeature.name \in Names(failedFeatures)
                THEN failedFeatures
                ELSE failedFeatures \o <<step'.worstFeature>>]_vars

\* The proposer is being called with the rejection history as it is, because the
\* history already holds the name of the dropped feature.
C18_Witness ==
    /\ pc = "proposing"
    /\ failedFeatures # <<>>
    /\ step.worstFeature.name \in Names(failedFeatures)
    /\ step.fullFailedFeatures = failedFeatures

----------------------------------------------------------------------------
(* Properties of rankVideos *)

\* C19: when rankVideos returns, every video it was given has a ranking with
\* exactly its title; it ends in no other way than by returning or throwing.
C19_EveryVideoRanked ==
    (rank.pc = "returned") =>
        \A i \in 1..Len(rank.videos) :
            \E k \in 1..Len(rank.rankings) : rank.rankings[k].title = rank.videos[i]

\* C20: whatever the scorer replies, rankVideos asks it at most once per video
\* and MAX_TRIES times more: a request either ranks a video that had no
\* ranking or uses up one of the retries, and after the last retry rankVideos
\* throws.
C20_RequestsWithinRetryBudget ==
    (rank.pc # "none") => (rank.requests <= Len(rank.videos) + MAX_TRIES)

----------------------------------------------------------------------------
(* Properties of the clients of the proposer and of the scorer *)

\* The first attempt of the call failed.
FirstAttemptFailed ==
    /\ call.op = "client"
    /\ call.configured
    /\ (IF call.backend = "gemma" THEN gemmaAttempt(call.outcomes[1])
        ELSE ollamaAttempt(call.outcomes[1])) # "valid"

\* C21 (as stated): a failing call of the proposer's or the scorer's client is
\* retried: after a failed first attempt there is another one, and the client
\* throws only after the last attempt of its budget has failed too.
C21_FailingCallIsRetried ==
    FirstAttemptFailed => (call.out.attempts >= 2)

\* C21 (amended): GemmaClient, the client of the proposer and of the scorer in
\* runReflexion, makes one attempt: when it fails the client throws at once,
\* whatever a second attempt would have given.  OllamaClient makes a second
\* attempt and throws when that fails too.
C21_GemmaCallIsNotRetried ==
    FirstAttemptFailed =>
        IF call.backend = "gemma"
        THEN call.out = [threw |-> TRUE, attempts |-> GEMMA_MAX_ATTEMPTS]
        ELSE /\ call.out.attempts = OLLAMA_MAX_ATTEMPTS
             /\ call.out.threw <=> (call.outcomes[2] # "valid")

\* GemmaClient has thrown although a second attempt would have succeeded.
C21_Witness ==
    /\ FirstAttemptFailed
    /\ call.backend = "gemma"
    /\ call.outcomes[2] = "valid"
    /\ call.out.threw

----------------------------------------------------------------------------
(* Properties of one iteration *)

\* C22: an iteration gets past the training of its model only with at least
\* as many training rows as input columns (auxiliary covariates and features)
\* plus one; with fewer rows training throws and the iteration is skipped.
C22_TrainingNeedsEnoughRows ==
    InIteration =>
        (Len(step.training) >= RECENT_VIDEOS_COUNT + Len(step.features) + 1)

\* The places of the calls of a callee in the calls of the iteration.
CallsOf(callee) == {k \in 1..Len(step.calls) : step.calls[k].callee = callee}

\* C23: when reflexionStep has run to its end, it has asked the scorer twice,
\* each time for the candidate feature alone: first for the videos of the
\* training split, before the model with the candidate is trained, then for
\* the videos of the validation split, before that model predicts.
C23_ScorerAskedForCandidateOnly ==
    (pc = "deciding") =>
        \E t, v \in CallsOf("rankVideos") :
            /\ CallsOf("rankVideos") = {t, v}
            /\ t < v
            /\ step.calls[t] = CallOf("rankVideos", step.training, <<step.newFeature>>)
            /\ step.calls[v] = CallOf("rankVideos", step.validation, <<step.newFeature>>)
            /\ \E m \in CallsOf("trainFeatureModel") :
                  /\ step.calls[m] = CallOf("trainFeatureModel", step.training,
                                            step.updatedFeatures)
                  /\ t < m
            /\ \E e \in CallsOf("predict") :
                  /\ step.calls[e] = CallOf("predict", step.validation, step.updatedFeatures)
                  /\ v < e

\* An iteration has run to its end with a candidate of a new name.
C23_Witness ==
    /\ pc = "deciding"
    /\ Len(step.calls) = 6
    /\ step.newFeature.name = "Len"

\* The titles of a list of videos.
TitlesOf(videos) == [i \in 1..Len(videos) |-> videos[i].title]

\* C24: in every iteration the training split and the validation split
\* partition the videos of the run: no video is in both, every video is in
\* one of them, and the training split has floor(0.8 * n) of the n videos.
C24_SplitsPartitionVideos ==
    InIteration =>
        LET n == Len(featuredVideos)
            t == Range(TitlesOf(step.training))
            v == Range(TitlesOf(step.validation))
        IN  /\ t \cap v = {}
            /\ t \cup v = Range(TitlesOf(featuredVideos))
            /\ Len(step.training) + Len(step.validation) = n
            /\ Cardinality(t) = Len(step.training)
            /\ Cardinality(v) = Len(step.validation)
            /\ 10 * Len(step.training) <= 8 * n
            /\ 8 * n < 10 * (Len(step.training) + 1)

\* An iteration trains on the second video and validates on the first.
C24_Witness ==
    /\ InIteration
    /\ TitlesOf(step.training) = <<"v2">>
    /\ TitlesOf(step.validation) = <<"v1">>

\* C25: an iteration starts only from the state the decision (or the skip) of
\* the one before it has left: it is given the active features and the
\* rejection history of the run as they are at that moment, under the next
\* index; while it is in flight no other iteration starts and the active
\* features and the rejection history stay as it received them.
C25_IterationsAreSequential ==
    /\ InIteration =>
          /\ step.features = features
          /\ SubSeq(step.fullFailedFeatures, 1, Len(failedFeatures)) = failedFeatures
          /\ attempted # <<>>
          /\ attempted[Len(attempted)] = index
    /\ \A k \in 1..Len(attempted) : attempted[k] = k - 1
    /\ (pc = "start") => (step = NoStep /\ Len(attempted) = index)

\* An iteration is in flight after an accepted one: it was given the active
\* features the accept has left.
C25_Witness ==
    /\ InIteration
    /\ step.features # BootstrapFeatures
    /\ index >= 1

----------------------------------------------------------------------------
(* Properties of a run of rejections *)

\* Every iteration that came to its decision was rejected: the k-th entry of
\* the rejection history is the candidate object of the k-th decision (an
\* accept pushes an object that was active before, or undefined).
EveryDecisionRejected ==
    \A k \in 1..Len(failedFeatures) :
        failedFeatures[k] # Undefined /\ failedFeatures[k].id = k

\* The proposer has not given the same name twice.
NoNameProposedTwice ==
    \A j, k \in 1..Len(failedFeatures) :
        (j # k /\ failedFeatures[j] # Undefined /\ failedFeatures[k] # Undefined)
            => (failedFeatures[j].name # failedFeatures[k].name)

\* C26: while every decision of the run has been a rejection and the proposer
\* has not repeated a name, the active features are those of the bootstrap and
\* the rejection history holds as many distinct names as there were decisions.
C26_RejectionsLeaveActiveFeatures ==
    (EveryDecisionRejected /\ NoNameProposedTwice) =>
        /\ features = BootstrapFeatures
        /\ Cardinality(Names(failedFeatures)) = Len(failedFeatures)
        /\ (pc = "start") => (Len(failedFeatures) <= index)

\* Three iterations have been rejected, with three names.
C26_Witness ==
    /\ EveryDecisionRejected
    /\ NoNameProposedTwice
    /\ pc = "start"
    /\ Len(failedFeatures) = 3
    /\ Cardinality(Names(failedFeatures)) = 3


C28_ReturnedScoresInRange ==
    rank.pc = "returned" =>
        \A k \in 1..Len(rank.rankings) :
            /\ rank.rankings[k].score.type = "number"
            /\ rank.rankings[k].score.value \in SCORE_MINIMUM..SCORE_MAXIMUM


\* ---------------------------------------------------------------------------
\* C29. Within one call of rankVideos at most MAX_TRIES requests are issued
\* while fewer than batchSize videos are unranked (failures counts them), and
\* once the third of them has been answered with videos still unranked the
\* call issues no further request and does not finish normally: it throws
\* 'Max ranking retries exceeded.', and it throws that error in no other case.
C29_ThrowsAfterThirdShortRequest ==
    LET unranked == unrankedVideos(rank.videos, rank.rankings)
    IN  /\ rank.failures <= MAX_TRIES
        /\ (rank.failures = MAX_TRIES /\ Len(unranked) > 0 /\ rank.pc # "awaiting")
              => /\ rank.pc \in {"loop", "threw"}
                 /\ rank.pc = "threw" => rank.error \in {"Max ranking retries exceeded.", "client"}
        /\ rank.error = "Max ranking retries exceeded."
              => (rank.pc = "threw" /\ rank.failures = MAX_TRIES /\ Len(unranked) > 0)


-----------------------------------------------------------------------------
(* Properties of getRecentVideos *)

\* C30: for a list of n videos getRecentVideos gives, in input order, the
\* videos from the sixth to the last, each with exactly 5 recent views that are
\* log(views + 1) of the 5 videos just before it, oldest first; the first 5
\* videos are dropped, so nothing is given when n <= 5.
C30_RecentViewsOfFivePreceding ==
    call.op = "getRecentVideos" =>
        LET n == Len(call.videos)
        IN  /\ Len(call.out) = (IF n <= 5 THEN 0 ELSE n - 5)
            /\ \A r \in 1..Len(call.out) :
                  /\ call.out[r].video = call.videos[r + 5]
                  /\ Len(call.out[r].recentViews) = 5
                  /\ \A k \in 1..5 :
                        call.out[r].recentViews[k] = MathLog(call.videos[r + k - 1].views + 1)

\* Seven videos with three different view counts: two of them come back.
C30_Witness ==
    /\ call.op = "getRecentVideos"
    /\ Len(call.videos) = 7
    /\ Len(call.out) = 2
    /\ {call.videos[i].views : i \in 1..6} = ViewVals
    /\ call.out[1].recentViews # call.out[2].recentViews


-----------------------------------------------------------------------------
(* Further properties of getWorstPredictions *)

\* C31: the list getWorstPredictions returns holds no entity twice, also when
\* several entities have the same absolute residual.
C31_NoEntityTwice ==
    (call.op = "getWorstPredictions") =>
        \A r, s \in 1..Len(call.out) :
            (r # s) => (call.out[r].idx # call.out[s].idx)


-----------------------------------------------------------------------------
(* Further properties of runReflexion *)

\* C32: at every point of the run the featured videos are the entities of the
\* bootstrap, each exactly once: every bootstrap video is at exactly one
\* place, with its title, log views and recent views, and with a feature map
\* that has at least the keys it had after bootstrap; iterations only reorder
\* the videos and add keys.
C32_EntitiesArePreserved ==
    /\ Len(featuredVideos) = Len(BootstrapVideos)
    /\ \A i \in 1..Len(BootstrapVideos) :
          LET places == {j \in 1..Len(featuredVideos) :
                            featuredVideos[j].title = BootstrapVideos[i].title}
          IN  /\ Cardinality(places) = 1
              /\ \A j \in places :
                    /\ featuredVideos[j].logViews = BootstrapVideos[i].logViews
                    /\ featuredVideos[j].recentViews = BootstrapVideos[i].recentViews
                    /\ DOMAIN BootstrapVideos[i].features \subseteq DOMAIN featuredVideos[j].features

\* After an accepted, a rejected and a skipped iteration the videos are in
\* another order than after bootstrap and carry a key more.
C32_Witness ==
    /\ pc = "start"
    /\ index >= 3
    /\ Len(failedFeatures) = 2
    /\ features # BootstrapFeatures
    /\ featuredVideos[1].title = BootstrapVideos[2].title
    /\ DOMAIN featuredVideos[1].features # DOMAIN BootstrapVideos[2].features


\* C33: an iteration changes the stored score of no feature that was scored
\* before: for every entity, every key its feature map had before the
\* iteration has the same value after it (the one key written is the
\* candidate's name, which is a new key).
C33_StoredScoresKept ==
    [][ (pc = "deciding") =>
            \A i \in 1..Len(featuredVideos) : \A j \in 1..Len(featuredVideos') :
                (featuredVideos'[j].title = featuredVideos[i].title) =>
                    \A n \in DOMAIN featuredVideos[i].features :
                        /\ n \in DOMAIN featuredVideos'[j].features
                        /\ featuredVideos'[j].features[n] = featuredVideos[i].features[n] ]_vars


-----------------------------------------------------------------------------
(* Further properties of rankVideos *)

\* C34: the rankings rankVideos returns hold exactly one entry per input
\* video: as many entries as videos, for every video exactly one ranking of
\* its title (titles compared in normal form), and no ranking of a title that
\* was not among the videos.
C34_OneRankingPerVideo ==
    (rank.pc = "returned") =>
        /\ Len(rank.rankings) = Len(rank.videos)
        /\ \A i \in 1..Len(rank.videos) :
              Cardinality({k \in 1..Len(rank.rankings) :
                              NFKC(rank.rankings[k].title) = NFKC(rank.videos[i])}) = 1
        /\ \A k \in 1..Len(rank.rankings) :
              \E i \in 1..Len(rank.videos) :
                  NFKC(rank.rankings[k].title) = NFKC(rank.videos[i])


-----------------------------------------------------------------------------
(* Properties of trainReflexion *)

\* C35: every row a model of trainReflexion predicts has the dimension and the
\* layout of the rows that model was trained on: the auxiliary covariates of
\* the video first (its recent views, RECENT_VIDEOS_COUNT of them), then the
\* scores of the model's features in training order.
C35_PredictRowsLikeTrainingRows ==
    (call.op = "trainReflexion" /\ ~call.out.threw) =>
        /\ \A k \in 1..Len(call.out.validation_X1) :
              /\ Len(call.out.validation_X1[k]) = Len(call.out.X[1])
              /\ SubSeq(call.out.validation_X1[k], 1, RECENT_VIDEOS_COUNT)
                    = call.validation[k].recentViews
        /\ \A k \in 1..Len(call.out.validation_X2) :
              /\ Len(call.out.validation_X2[k]) = Len(call.out.newX[1])
              /\ SubSeq(call.out.validation_X2[k], 1, RECENT_VIDEOS_COUNT)
                    = call.validation[k].recentViews


-----------------------------------------------------------------------------
(* Further properties of the clients *)

\* C36: a client returns only a value that was parsed from a reply and passed
\* the validation; it makes at most maxAttempts requests (1 for GemmaClient, 2
\* for OllamaClient) and stops at the first reply that is valid: when one of
\* the replies within its budget is valid it returns that of the first such
\* attempt, and otherwise it throws after the last attempt of the budget.
C36_ReturnsFirstValidReply ==
    (call.op = "client" /\ call.configured) =>
        LET maxAttempts == IF call.backend = "gemma" THEN 1 ELSE 2
            validAt     == {a \in 1..maxAttempts :
                               call.outcomes[a] \in {"valid", "validUnlogged"}}
        IN  /\ call.out.attempts <= maxAttempts
            /\ (~call.out.threw) => (call.out.attempts \in validAt)
            /\ (validAt # {}) => (~call.out.threw /\ call.out.attempts = Min(validAt))
            /\ (validAt = {}) => (call.out.threw /\ call.out.attempts = maxAttempts)


-----------------------------------------------------------------------------
(* Properties of rankTargetProximity *)

\* The source has a usable embedding: the seed's file holds a vector under an
\* id of the same norm.
Usable(id) ==
    \E i \in 1..Len(call.seedRefs) :
        /\ norm(call.seedRefs[i].arxivId) = norm(id)
        /\ isNumArray(call.seedRefs[i].title)

====
